---- MODULE Spec2Model ----
(***************************************************************************)
(* SSE streaming client of the chat front end: streamChat and              *)
(* streamChatPublic (services/api.ts).  One stream is modelled from the    *)
(* call of the start function to quiescence.  Text is a sequence of        *)
(* one-character or one-token atoms (strings); the wire is a sequence of   *)
(* such atoms that the transport hands over in arbitrary chunks.           *)
(***************************************************************************)
EXTENDS Integers, Sequences, FiniteSets, TLC

\* ------------------------------------------------------------------ bounds
\* events the backend puts on the wire
MaxEvents == 2
\* atoms one reader.read() hands over
MaxChunk == 9

\* --------------------------------------------------------------- alphabet
NL == "\n"
SP == " "
EventField == "event:"
DataField == "data:"

\* JSON payloads the backend can put after `data: ` (one atom each)
JsonCid == "{\"conversation_id\":42}"
JsonEmptyObj == "{}"
JsonTokenA == "{\"event\":\"token\",\"data\":\"a\"}"
JsonTokenSpB == "{\"event\":\"token\",\"data\":\" b\"}"
JsonDoneEmpty == "{\"event\":\"done\",\"data\":{}}"
JsonDoneCid == "{\"event\":\"done\",\"data\":{\"conversation_id\":42}}"
\* JSON texts that are no token or done envelope
JsonNumber == "7"
JsonString == "\"hi\""
JsonPing == "{\"event\":\"ping\",\"data\":\"a\"}"
JsonTokenNoData == "{\"event\":\"token\",\"data\":\"\"}"
JsonNull == "null"

Undefined == "undefined"
Null == <<"<null>">>

\* error messages
MsgNoAuth == "No autenticado. Por favor, inicia sesion."
MsgSessionExpired == "Sesion expirada. Por favor, inicia sesion nuevamente."
MsgNoBody == "No se recibio respuesta del servidor"
MsgNetwork == "Failed to fetch"
MsgAbort == "AbortError"

\* ---------------------------------------------------------- text helpers
RECURSIVE Flatten(_)
Flatten(ss) == IF ss = <<>> THEN <<>> ELSE Head(ss) \o Flatten(Tail(ss))

IsSpace(c) == c = SP

Min(a, b) == IF a < b THEN a ELSE b

\* String.prototype.trim
RECURSIVE TrimLeft(_)
TrimLeft(t) == IF t # <<>> /\ IsSpace(Head(t)) THEN TrimLeft(Tail(t)) ELSE t

RECURSIVE TrimRight(_)
TrimRight(t) ==
  IF t # <<>> /\ IsSpace(t[Len(t)]) THEN TrimRight(SubSeq(t, 1, Len(t) - 1)) ELSE t

Trim(t) == TrimLeft(TrimRight(t))

\* String.prototype.startsWith
StartsWith(t, p) == Len(t) >= Len(p) /\ SubSeq(t, 1, Len(p)) = p

\* String.prototype.slice(n) for a prefix of n atoms
SliceFrom(t, n) == SubSeq(t, n + 1, Len(t))

\* String.prototype.split('\n'): the pieces between the newlines, the last
\* piece being the text after the last newline (possibly empty)
RECURSIVE SplitLines(_, _)
SplitLines(t, cur) ==
  IF t = <<>> THEN <<cur>>
  ELSE IF Head(t) = NL THEN <<cur>> \o SplitLines(Tail(t), <<>>)
  ELSE SplitLines(Tail(t), Append(cur, Head(t)))

Split(t) == SplitLines(t, <<>>)

\* --------------------------------------------------- TextDecoder (UTF-8)
\* Bytes are atoms too.  An ASCII atom decodes to itself; Lead followed by
\* Cont is the two-byte encoding of CharTwoByte; anything else that is not
\* well formed decodes to the replacement character (the decoder is built
\* without the fatal option).
Lead == "0xC3"
Cont == "0xA9"
CharTwoByte == "U+00E9"
Replacement == "U+FFFD"

\* decoder.decode(value, { stream: true }): the text of this chunk and the
\* incomplete sequence carried to the next call
RECURSIVE Decode(_, _)
Decode(pending, bytes) ==
  IF bytes = <<>> THEN [text |-> <<>>, pending |-> pending]
  ELSE LET b == Head(bytes) IN
    IF pending = <<>> THEN
      IF b = Lead THEN Decode(<<Lead>>, Tail(bytes))
      ELSE LET r == Decode(<<>>, Tail(bytes)) IN
           [r EXCEPT !.text = <<IF b = Cont THEN Replacement ELSE b>> \o @]
    ELSE
      IF b = Cont THEN LET r == Decode(<<>>, Tail(bytes)) IN
                       [r EXCEPT !.text = <<CharTwoByte>> \o @]
      ELSE LET r == Decode(<<>>, bytes) IN
           [r EXCEPT !.text = <<Replacement>> \o @]

\* ------------------------------------------------------------ JSON.parse
JsonAtoms ==
  {JsonCid, JsonEmptyObj, JsonTokenA, JsonTokenSpB, JsonDoneEmpty, JsonDoneCid,
   JsonNumber, JsonString, JsonPing, JsonTokenNoData, JsonNull}

\* JSON.parse(dataStr) succeeds
JsonValid(t) == Len(t) = 1 /\ t[1] \in JsonAtoms

\* reading a property of the parsed value does not throw: `data.event` on
\* null is a TypeError, on a number, a string or an object it is a value
JsonReadable(t) == t[1] # JsonNull

\* data.event of the parsed value
JsonEvent(t) ==
  IF t[1] \in {JsonTokenA, JsonTokenSpB, JsonTokenNoData} THEN "token"
  ELSE IF t[1] \in {JsonDoneEmpty, JsonDoneCid} THEN "done"
  ELSE IF t[1] = JsonPing THEN "ping"
  ELSE Undefined

\* data.data of the parsed value, as text (<<>> when absent or not a string)
JsonData(t) ==
  IF t[1] \in {JsonTokenA, JsonPing} THEN <<"a">>
  ELSE IF t[1] = JsonTokenSpB THEN <<SP, "b">>
  ELSE <<>>

\* data.conversation_id of the parsed value
JsonConversationId(t) == IF t[1] = JsonCid THEN "42" ELSE Undefined

\* data.data?.conversation_id of the parsed value
JsonDataConversationId(t) == IF t[1] = JsonDoneCid THEN "42" ELSE Undefined

\* ------------------------------------------------------------- callbacks
OnToken(text) == [cb |-> "onToken", arg |-> text]
OnComplete(cid) == [cb |-> "onComplete", arg |-> <<cid>>]
OnError(msg) == [cb |-> "onError", arg |-> msg]

\* ------------------------------------------------------- line processing
\* The locals of one stream that the line loop reads and writes.
\* returned: the loop has executed `return` (done event dispatched).
\* processed: the lines the loop has iterated over (history).

\* (mutant) the buffer is assigned instead of extended
AppendTokenOverwrite(s, text) ==
  [s EXCEPT !.visualBuffer = text,
            !.flushTimeout = TRUE,
            !.timers = IF s.flushTimeout THEN @ ELSE @ + 1,
            !.appended = Append(@, text)]

\* (mutant) every append sets a timer, whether or not one is pending
AppendTokenAlwaysSchedules(s, text) ==
  [s EXCEPT !.visualBuffer = @ \o text,
            !.flushTimeout = TRUE,
            !.timers = @ + 1,
            !.appended = Append(@, text)]

\* visualBuffer += text; if (!flushTimeout) flushTimeout = setTimeout(flush, 30)
\* (timers counts the timer callbacks the event loop still has to run;
\* appended records the texts added since the buffer was last emptied)
AppendToken(s, text) ==
  [s EXCEPT !.visualBuffer = @ \o text,
            !.flushTimeout = TRUE,
            !.timers = IF s.flushTimeout THEN @ ELSE @ + 1,
            !.appended = Append(@, text)]

\* the bare-JSON token envelope: streamChatPublic buffers it, streamChat
\* hands it to onToken at once
LegacyToken(s, text, v) ==
  IF v = "public" THEN AppendToken(s, text)
  ELSE [s EXCEPT !.calls = Append(@, OnToken(text))]

\* (mutant) the done branch without its `return`
NamedDoneNoReturn(s, dataStr) ==
  [s EXCEPT !.calls = Append(@, OnComplete(IF JsonValid(dataStr)
                                            THEN JsonConversationId(dataStr)
                                            ELSE Undefined))]

\* (mutant) the done branch parses its payload outside a try block: the
\* SyntaxError reaches the outer catch
NamedDoneThrows(s, dataStr) ==
  [s EXCEPT !.calls = Append(@, IF JsonValid(dataStr)
                                  THEN OnComplete(JsonConversationId(dataStr))
                                  ELSE OnError(<<"Unexpected token">>)),
            !.returned = TRUE]

\* (mutant) the done branch flushes the coalescing buffer before it calls
\* onComplete
NamedDoneFlushFirst(s, dataStr) ==
  [s EXCEPT !.calls = (IF s.visualBuffer # <<>> THEN Append(@, OnToken(s.visualBuffer)) ELSE @)
                        \o <<OnComplete(IF JsonValid(dataStr)
                                          THEN JsonConversationId(dataStr)
                                          ELSE Undefined)>>,
            !.visualBuffer = <<>>,
            !.appended = <<>>,
            !.returned = TRUE]

\* the payload of a `data: ` line while currentEvent is 'done'
NamedDone(s, dataStr) ==
  [s EXCEPT !.calls = Append(@, OnComplete(IF JsonValid(dataStr)
                                            THEN JsonConversationId(dataStr)
                                            ELSE Undefined)),
            !.returned = TRUE]

\* (mutant) the bare done envelope calls onComplete without `return`
LegacyDispatchNoReturn(s, dataStr, v) ==
  IF JsonValid(dataStr) /\ JsonReadable(dataStr) THEN
    IF JsonEvent(dataStr) = "token" /\ JsonData(dataStr) # <<>>
      THEN LegacyToken(s, JsonData(dataStr), v)
    ELSE IF JsonEvent(dataStr) = "done"
      THEN [s EXCEPT !.calls = Append(@, OnComplete(JsonDataConversationId(dataStr)))]
    ELSE s
  ELSE IF s.currentEvent \in {Null, <<>>} THEN AppendToken(s, dataStr)
  ELSE s

\* (mutant) a bare payload that is not JSON is an error instead of a token
LegacyDispatchStrict(s, dataStr, v) ==
  IF JsonValid(dataStr) /\ JsonReadable(dataStr) THEN
    IF JsonEvent(dataStr) = "token" /\ JsonData(dataStr) # <<>>
      THEN LegacyToken(s, JsonData(dataStr), v)
    ELSE IF JsonEvent(dataStr) = "done"
      THEN [s EXCEPT !.calls = Append(@, OnComplete(JsonDataConversationId(dataStr))),
                     !.returned = TRUE]
    ELSE s
  ELSE [s EXCEPT !.calls = Append(@, OnError(<<"Unexpected token">>)), !.returned = TRUE]

\* the payload of a `data: ` line while currentEvent is neither 'token'
\* nor 'done'
LegacyDispatch(s, dataStr, v) ==
  IF JsonValid(dataStr) /\ JsonReadable(dataStr) THEN
    IF JsonEvent(dataStr) = "token" /\ JsonData(dataStr) # <<>>
      THEN LegacyToken(s, JsonData(dataStr), v)
    ELSE IF JsonEvent(dataStr) = "done"
      THEN [s EXCEPT !.calls = Append(@, OnComplete(JsonDataConversationId(dataStr))),
                     !.returned = TRUE]
    ELSE s
  ELSE IF s.currentEvent \in {Null, <<>>} THEN AppendToken(s, dataStr)
  ELSE s

\* const dataStr = trimmedLine.slice(6).trim()
DataStr(trimmedLine) == Trim(SliceFrom(trimmedLine, 2))

Dispatch(s, dataStr, v) ==
  IF s.currentEvent = <<"token">> THEN AppendToken(s, dataStr)
  ELSE IF s.currentEvent = <<"done">> THEN NamedDone(s, dataStr)
  ELSE LegacyDispatch(s, dataStr, v)

\* (mutant) a dispatched data line ends its event: the pending event name
\* is cleared at the data line
ProcessLineClearsEvent(s, line, v) ==
  LET trimmedLine == Trim(line) IN
  IF trimmedLine = <<>> THEN
    IF s.currentEvent = <<"done">>
      THEN [s EXCEPT !.calls = Append(@, OnComplete(Undefined)), !.returned = TRUE]
      ELSE [s EXCEPT !.currentEvent = Null]
  ELSE IF StartsWith(trimmedLine, <<EventField, SP>>)
    THEN [s EXCEPT !.currentEvent = Trim(SliceFrom(trimmedLine, 2))]
  ELSE IF StartsWith(trimmedLine, <<DataField, SP>>)
    THEN IF DataStr(trimmedLine) # <<>>
           THEN [Dispatch(s, DataStr(trimmedLine), v) EXCEPT !.currentEvent = Null]
           ELSE s
  ELSE s

\* (mutant) a data line is dispatched whether or not its payload is empty
ProcessLineEmptyPayload(s, line, v) ==
  LET trimmedLine == Trim(line) IN
  IF trimmedLine = <<>> THEN
    IF s.currentEvent = <<"done">>
      THEN [s EXCEPT !.calls = Append(@, OnComplete(Undefined)), !.returned = TRUE]
      ELSE [s EXCEPT !.currentEvent = Null]
  ELSE IF StartsWith(trimmedLine, <<EventField, SP>>)
    THEN [s EXCEPT !.currentEvent = Trim(SliceFrom(trimmedLine, 2))]
  ELSE IF StartsWith(trimmedLine, <<DataField, SP>>)
    THEN Dispatch(s, DataStr(trimmedLine), v)
  ELSE IF trimmedLine = <<DataField>>
    THEN Dispatch(s, <<>>, v)
  ELSE s

\* (mutant) a blank line only clears the pending event name, also when the
\* name is `done`
ProcessLineBlankClears(s, line, v) ==
  LET trimmedLine == Trim(line) IN
  IF trimmedLine = <<>> THEN [s EXCEPT !.currentEvent = Null]
  ELSE IF StartsWith(trimmedLine, <<EventField, SP>>)
    THEN [s EXCEPT !.currentEvent = Trim(SliceFrom(trimmedLine, 2))]
  ELSE IF StartsWith(trimmedLine, <<DataField, SP>>)
    THEN IF DataStr(trimmedLine) # <<>> THEN Dispatch(s, DataStr(trimmedLine), v) ELSE s
  ELSE s

\* one iteration of `for (const line of lines)`
ProcessLine(s, line, v) ==
  LET trimmedLine == Trim(line) IN
  IF trimmedLine = <<>> THEN
    IF s.currentEvent = <<"done">>
      THEN [s EXCEPT !.calls = Append(@, OnComplete(Undefined)), !.returned = TRUE]
      ELSE [s EXCEPT !.currentEvent = Null]
  ELSE IF StartsWith(trimmedLine, <<EventField, SP>>)
    THEN [s EXCEPT !.currentEvent = Trim(SliceFrom(trimmedLine, 2))]
  ELSE IF StartsWith(trimmedLine, <<DataField, SP>>)
    THEN IF DataStr(trimmedLine) # <<>> THEN Dispatch(s, DataStr(trimmedLine), v) ELSE s
  ELSE s

\* `for (const line of lines)`, left by `return` (each iteration's result is
\* bound as a value before the next iteration starts)
RECURSIVE ProcessLines(_, _, _)
ProcessLines(s, lines, v) ==
  IF lines = <<>> \/ s.returned THEN s
  ELSE CHOOSE r \in {ProcessLines(t, Tail(lines), v) :
                       t \in {[ProcessLine(s, Head(lines), v)
                                 EXCEPT !.processed = Append(@, Head(lines))]}} : TRUE

\* ------------------------------------------------------------- the wire
\* What the backend sends: token events (a text chunk) and done events
\* (optionally carrying a conversation id), each written either in the
\* named-event form, as a bare JSON envelope, or (tokens) as bare raw text.
TokenTexts == {<<"a">>, <<SP, "b">>}
TokenEvents ==
  [type : {"token"}, text : TokenTexts, cid : {Undefined},
   form : {"named", "legacy"}]
  \cup [type : {"token"}, text : {<<"a">>}, cid : {Undefined}, form : {"raw"}]
\* a done payload that JSON.parse rejects
NotJson == "{not json"
DoneEvents ==
  [type : {"done"}, text : {<<>>}, cid : {"42", Undefined},
   form : {"named", "legacy"}]
  \cup [type : {"done"}, text : {<<NotJson>>}, cid : {Undefined}, form : {"named"}]
Events == TokenEvents \cup DoneEvents

EnvelopeOf(e) ==
  IF e.type = "token" THEN (IF e.text = <<"a">> THEN JsonTokenA ELSE JsonTokenSpB)
  ELSE (IF e.cid = "42" THEN JsonDoneCid ELSE JsonDoneEmpty)

Encode(e) ==
  IF e.form = "named" THEN
    <<EventField, SP, e.type, NL, DataField, SP>>
      \o (IF e.type = "token" \/ e.text # <<>> THEN e.text
          ELSE <<IF e.cid = "42" THEN JsonCid ELSE JsonEmptyObj>>)
      \o <<NL, NL>>
  ELSE IF e.form = "legacy" THEN <<DataField, SP, EnvelopeOf(e), NL, NL>>
  ELSE <<DataField, SP>> \o e.text \o <<NL, NL>>

EncodeAll(es) == Flatten([i \in 1..Len(es) |-> Encode(es[i])])

EventSeqs == UNION {[1..n -> Events] : n \in 0..MaxEvents}

\* the responses the transport can produce
StatusText(status) ==
  IF status = 401 THEN "Unauthorized" ELSE "Internal Server Error"
Responses ==
  {[status |-> 200, body |-> "stream"], [status |-> 204, body |-> "none"]}
  \cup [status : {401, 500},
        body : {"detail", "emptydetail", "nodetail", "nonjson", "detaillist"}]

\* response.ok
Ok(r) == r.status >= 200 /\ r.status <= 299

ServerDetail == "server overloaded"

\* `Error ${response.status}: ${response.statusText}`
StatusMessage(r) == <<"Error", ToString(r.status), StatusText(r.status)>>

\* (mutant) the server's detail is ignored
ErrorMessageStatusOnly(r, jsonRejects) == StatusMessage(r)

\* the message of new Error(errorData.detail || `Error ...`), where
\* errorData = await response.json().catch(() => ({}))
ErrorMessage(r, jsonRejects) ==
  IF jsonRejects \/ r.body \in {"nonjson", "nodetail", "emptydetail"}
    THEN StatusMessage(r)
  ELSE IF r.body = "detail" THEN <<ServerDetail>>
  ELSE <<"[object Object]">>

\* ----------------------------------------------------------------- state
VARIABLES
  variant,         \* "auth" (streamChat) or "public" (streamChatPublic)
  storedToken,     \* localStorage holds an auth_token (streamChatPublic only
                   \* copies it into a header, so it is left out there)
  resp,            \* the response the transport will produce
  events,          \* what the backend sends
  wire,            \* its encoding: the bytes of the response body
  pos,             \* number of wire atoms the reader has handed over
  pc,              \* where the async pump is suspended
  aborted,         \* let aborted
  decoderPending,  \* incomplete byte sequence held by the TextDecoder
  buffer,          \* let buffer (partial line)
  currentEvent,    \* let currentEvent
  visualBuffer,    \* let visualBuffer
  flushTimeout,    \* let flushTimeout is not null
  timers,          \* flush timers set and not yet fired
  calls,           \* the callback invocations so far, in order
  appended,        \* the texts appended to visualBuffer since it was emptied
  arrived,         \* what the transport has delivered of the response
  cancelPhase,     \* pc at the first cancel call ("none" before)
  cancelCalls,     \* Len(calls) at the first cancel call
  cancelRepeated,  \* cancel has been called more than once
  connection,      \* the response body stream: "none", "open" or "closed"
  processed,       \* the lines handed to the line loop so far, in order
  other,           \* a second stream, while it is not the one taking a step
  chat,            \* a chat view (Chat.vue or ChatPublic.vue) and its streams
  nav              \* the router: the current route and the navigation under way

vars ==
  <<variant, storedToken, resp, events, wire, pos, pc, aborted, decoderPending,
    buffer, currentEvent, visualBuffer, flushTimeout, timers, calls, appended,
    arrived, cancelPhase, cancelCalls, cancelRepeated, connection, processed, other,
    chat, nav>>

\* what a step of the running stream never writes: its inputs, the closure
\* of the other stream, and the components that are not mounted
inputVars == <<variant, resp, events, wire, other, chat, nav>>
cancelVars == <<aborted, cancelPhase, cancelCalls, cancelRepeated>>
parserVars == <<pos, decoderPending, buffer, currentEvent, processed>>
coalescerVars == <<visualBuffer, flushTimeout, timers, appended>>

\* the state of a stream before it is started
InitState ==
  /\ pos = 0
  /\ pc = "idle"
  /\ aborted = FALSE
  /\ decoderPending = <<>>
  /\ buffer = <<>>
  /\ currentEvent = Null
  /\ visualBuffer = <<>>
  /\ flushTimeout = FALSE
  /\ timers = 0
  /\ calls = <<>>
  /\ appended = <<>>
  /\ arrived = "nothing"
  /\ cancelPhase = "none"
  /\ cancelCalls = 0
  /\ cancelRepeated = FALSE
  /\ connection = "none"
  /\ processed = <<>>

\* no second stream
NoStream == [pc |-> "absent"]

\* no chat view is mounted and no router is installed
NoChat == [view |-> "absent"]
NoNav == [route |-> "absent"]
NoViews == chat = NoChat /\ nav = NoNav

Init ==
  /\ other = NoStream
  /\ NoViews
  /\ variant \in {"auth", "public"}
  /\ storedToken \in (IF variant = "auth" THEN BOOLEAN ELSE {FALSE})
  /\ resp \in Responses
  /\ events \in (IF resp.body = "stream" THEN EventSeqs ELSE {<<>>})
  /\ wire = EncodeAll(events)
  /\ InitState

\* (mutant) the catch block without the aborted test
CatchAlways(msg) ==
  /\ calls' = Append(calls, OnError(msg))
  /\ pc' = "ended"

\* (mutant) the catch block swallows the error
CatchSilent(msg) ==
  /\ calls' = calls
  /\ pc' = "ended"

\* catch (error) { if (!aborted && onError) onError(...) }
Catch(msg) ==
  /\ calls' = IF ~aborted THEN Append(calls, OnError(msg)) ELSE calls
  /\ pc' = "ended"

\* (mutant) streamChat goes on to the request without testing the credential
StartNoCredentialTest ==
  /\ pc = "idle"
  /\ pc' = "fetching"
  /\ UNCHANGED connection
  /\ UNCHANGED <<inputVars, storedToken, cancelVars, parserVars, coalescerVars,
                 arrived, calls>>

\* the call of streamChat / streamChatPublic up to its return
Start ==
  /\ pc = "idle"
  /\ IF variant = "auth" /\ ~storedToken
       THEN /\ calls' = Append(calls, OnError(<<MsgNoAuth>>))
            /\ pc' = "noauth"
       ELSE /\ pc' = "fetching"
            /\ UNCHANGED calls
  /\ UNCHANGED connection
  /\ UNCHANGED <<inputVars, storedToken, cancelVars, parserVars, coalescerVars, arrived>>

\* (mutant) a success response is read without testing that it has a body
FetchResolveNoBodyTest ==
  /\ pc = "fetching"
  /\ ~aborted
  /\ IF variant = "auth" /\ resp.status = 401
       THEN /\ storedToken' = FALSE
            /\ Catch(<<MsgSessionExpired>>)
       ELSE /\ UNCHANGED storedToken
            /\ IF ~Ok(resp) THEN pc' = "errorBody" /\ UNCHANGED calls
               ELSE pc' = "reading" /\ UNCHANGED calls
  /\ arrived' = "response"
  /\ connection' = "open"
  /\ UNCHANGED <<inputVars, cancelVars, parserVars, coalescerVars>>

\* (mutant) a 401 response is reported but the stored credential is kept
FetchResolveKeepsCredential ==
  /\ pc = "fetching"
  /\ ~aborted
  /\ IF variant = "auth" /\ resp.status = 401
       THEN /\ UNCHANGED storedToken
            /\ Catch(<<MsgSessionExpired>>)
       ELSE /\ UNCHANGED storedToken
            /\ IF ~Ok(resp) THEN pc' = "errorBody" /\ UNCHANGED calls
               ELSE IF resp.body = "none" THEN Catch(<<MsgNoBody>>)
               ELSE pc' = "reading" /\ UNCHANGED calls
  /\ arrived' = "response"
  /\ connection' = IF resp.body = "none" THEN "closed" ELSE "open"
  /\ UNCHANGED <<inputVars, cancelVars, parserVars, coalescerVars>>

\* the fetch promise resolves with the response
FetchResolve ==
  /\ pc = "fetching"
  /\ ~aborted
  /\ IF variant = "auth" /\ resp.status = 401
       THEN /\ storedToken' = FALSE
            /\ Catch(<<MsgSessionExpired>>)
       ELSE /\ UNCHANGED storedToken
            /\ IF ~Ok(resp) THEN pc' = "errorBody" /\ UNCHANGED calls
               ELSE IF resp.body = "none" THEN Catch(<<MsgNoBody>>)
               ELSE pc' = "reading" /\ UNCHANGED calls
  /\ arrived' = "response"
  /\ connection' = IF resp.body = "none" THEN "closed" ELSE "open"
  /\ UNCHANGED <<inputVars, cancelVars, parserVars, coalescerVars>>

\* the fetch promise rejects: the signal was aborted, or the network failed
FetchReject ==
  /\ pc = "fetching"
  /\ Catch(IF aborted THEN <<MsgAbort>> ELSE <<MsgNetwork>>)
  /\ arrived' = "failure"
  /\ UNCHANGED connection
  /\ UNCHANGED <<inputVars, storedToken, cancelVars, parserVars, coalescerVars>>

\* await response.json().catch(() => ({})) settles and the error is thrown
ErrorBody ==
  /\ pc = "errorBody"
  /\ \E jsonRejects \in {aborted, TRUE} :
       /\ Catch(ErrorMessage(resp, jsonRejects))
       /\ arrived' = IF jsonRejects \/ resp.body = "nonjson" THEN "errorUnread" ELSE "errorJson"
  /\ connection' = "closed"
  /\ UNCHANGED <<inputVars, storedToken, cancelVars, parserVars, coalescerVars>>

\* the locals the line loop works on
Locals ==
  [currentEvent |-> currentEvent, visualBuffer |-> visualBuffer,
   flushTimeout |-> flushTimeout, timers |-> timers, calls |-> calls,
   appended |-> appended, processed |-> processed, returned |-> FALSE]

\* (mutant) the piece after the last newline is dropped instead of kept
ReadChunkDropsPartial ==
  /\ pc = "reading"
  /\ ~aborted
  /\ \E n \in 1..Min(Len(wire) - pos, MaxChunk) :
     \E dec \in {Decode(decoderPending, SubSeq(wire, pos + 1, pos + n))} :
     \E pieces \in {Split(buffer \o dec.text)} :
     \E s \in {ProcessLines(Locals, SubSeq(pieces, 1, Len(pieces) - 1), variant)} :
          /\ pos' = pos + n
          /\ decoderPending' = dec.pending
          /\ buffer' = <<>>
          /\ currentEvent' = s.currentEvent
          /\ visualBuffer' = s.visualBuffer
          /\ flushTimeout' = s.flushTimeout
          /\ timers' = s.timers
          /\ calls' = s.calls
          /\ appended' = s.appended
          /\ processed' = s.processed
          /\ pc' = IF s.returned THEN "ended" ELSE "reading"
  /\ UNCHANGED connection
  /\ UNCHANGED <<inputVars, storedToken, cancelVars, arrived>>

\* (mutant) decoder.decode(value) without { stream: true }: every chunk is
\* decoded on its own and an incomplete character at its end is replaced
ReadChunkNoStreamOption ==
  /\ pc = "reading"
  /\ ~aborted
  /\ \E n \in 1..Min(Len(wire) - pos, MaxChunk) :
     \E dec \in {Decode(<<>>, SubSeq(wire, pos + 1, pos + n))} :
     \E pieces \in {Split(buffer \o dec.text
                            \o (IF dec.pending # <<>> THEN <<Replacement>> ELSE <<>>))} :
     \E s \in {ProcessLines(Locals, SubSeq(pieces, 1, Len(pieces) - 1), variant)} :
          /\ pos' = pos + n
          /\ decoderPending' = <<>>
          /\ buffer' = pieces[Len(pieces)]
          /\ currentEvent' = s.currentEvent
          /\ visualBuffer' = s.visualBuffer
          /\ flushTimeout' = s.flushTimeout
          /\ timers' = s.timers
          /\ calls' = s.calls
          /\ appended' = s.appended
          /\ processed' = s.processed
          /\ pc' = IF s.returned THEN "ended" ELSE "reading"
  /\ UNCHANGED connection
  /\ UNCHANGED <<inputVars, storedToken, cancelVars, arrived>>

\* reader.read() resolves with the next n bytes; the chunk is decoded,
\* split into lines and the complete lines are processed
ReadChunk ==
  /\ pc = "reading"
  /\ ~aborted
  /\ \E n \in 1..Min(Len(wire) - pos, MaxChunk) :
     \E dec \in {Decode(decoderPending, SubSeq(wire, pos + 1, pos + n))} :
     \E pieces \in {Split(buffer \o dec.text)} :
     \E s \in {ProcessLines(Locals, SubSeq(pieces, 1, Len(pieces) - 1), variant)} :
          /\ pos' = pos + n
          /\ decoderPending' = dec.pending
          /\ buffer' = pieces[Len(pieces)]
          /\ currentEvent' = s.currentEvent
          /\ visualBuffer' = s.visualBuffer
          /\ flushTimeout' = s.flushTimeout
          /\ timers' = s.timers
          /\ calls' = s.calls
          /\ appended' = s.appended
          /\ processed' = s.processed
          /\ pc' = IF s.returned THEN "ended" ELSE "reading"
  /\ UNCHANGED connection
  /\ UNCHANGED <<inputVars, storedToken, cancelVars, arrived>>

\* (mutant) end-of-data leaves the loop without calling onComplete
ReadEOFSilent ==
  /\ pc = "reading"
  /\ ~aborted
  /\ pc' = "ended"
  /\ arrived' = "eof"
  /\ connection' = "closed"
  /\ UNCHANGED <<inputVars, storedToken, cancelVars, parserVars, coalescerVars, calls>>

\* (mutant) end-of-data clears the pending flush timer
ReadEOFClearTimer ==
  /\ pc = "reading"
  /\ ~aborted
  /\ calls' = Append(calls, OnComplete(Undefined))
  /\ pc' = "ended"
  /\ timers' = 0
  /\ flushTimeout' = FALSE
  /\ arrived' = "eof"
  /\ connection' = "closed"
  /\ UNCHANGED <<inputVars, storedToken, cancelVars, parserVars, visualBuffer, appended>>

\* (mutant) end-of-data processes what is left in the line buffer as a last
\* line before it completes
ReadEOFLastLine ==
  /\ pc = "reading"
  /\ ~aborted
  /\ \E s \in {ProcessLines(Locals, <<buffer>>, variant)} :
       /\ currentEvent' = s.currentEvent
       /\ visualBuffer' = s.visualBuffer
       /\ flushTimeout' = s.flushTimeout
       /\ timers' = s.timers
       /\ appended' = s.appended
       /\ processed' = s.processed
       /\ calls' = IF s.returned THEN s.calls ELSE Append(s.calls, OnComplete(Undefined))
  /\ buffer' = <<>>
  /\ pc' = "ended"
  /\ arrived' = "eof"
  /\ connection' = "closed"
  /\ UNCHANGED <<inputVars, storedToken, cancelVars, pos, decoderPending>>

\* reader.read() resolves with done: the transport signals end-of-data
ReadEOF ==
  /\ pc = "reading"
  /\ ~aborted
  /\ calls' = Append(calls, OnComplete(Undefined))
  /\ pc' = "ended"
  /\ arrived' = "eof"
  /\ connection' = "closed"
  /\ UNCHANGED <<inputVars, storedToken, cancelVars, parserVars, coalescerVars>>

\* reader.read() rejects: the signal was aborted, or the connection broke
ReadFail ==
  /\ pc = "reading"
  /\ Catch(IF aborted THEN <<MsgAbort>> ELSE <<MsgNetwork>>)
  /\ arrived' = "broken"
  /\ connection' = "closed"
  /\ UNCHANGED <<inputVars, storedToken, cancelVars, parserVars, coalescerVars>>

\* (mutant) the flush delivers the buffer and forgets to empty it
FlushKeepsBuffer ==
  /\ timers > 0
  /\ timers' = timers - 1
  /\ calls' = IF visualBuffer # <<>> THEN Append(calls, OnToken(visualBuffer)) ELSE calls
  /\ visualBuffer' = visualBuffer
  /\ flushTimeout' = FALSE
  /\ appended' = <<>>
  /\ UNCHANGED connection
  /\ UNCHANGED <<inputVars, storedToken, cancelVars, parserVars, pc, arrived>>

\* the flush timer fires
Flush ==
  /\ timers > 0
  /\ timers' = timers - 1
  /\ calls' = IF visualBuffer # <<>> THEN Append(calls, OnToken(visualBuffer)) ELSE calls
  /\ visualBuffer' = <<>>
  /\ flushTimeout' = FALSE
  /\ appended' = <<>>
  /\ UNCHANGED connection
  /\ UNCHANGED <<inputVars, storedToken, cancelVars, parserVars, pc, arrived>>

\* (mutant) cancel aborts the transport but leaves the flag alone
CancelNoFlag ==
  /\ pc # "idle"
  /\ aborted' = aborted
  /\ cancelPhase' = IF cancelPhase = "none" THEN pc ELSE cancelPhase
  /\ cancelCalls' = IF cancelPhase = "none" THEN Len(calls) ELSE cancelCalls
  /\ cancelRepeated' = (cancelPhase # "none")
  /\ connection' = IF connection = "open" THEN "closed" ELSE connection
  /\ UNCHANGED <<inputVars, storedToken, parserVars, coalescerVars, calls, pc, arrived>>

\* (mutant) cancel flips the flag instead of setting it
CancelToggle ==
  /\ pc # "idle"
  /\ aborted' = IF pc = "noauth" THEN aborted ELSE ~aborted
  /\ cancelPhase' = IF cancelPhase = "none" THEN pc ELSE cancelPhase
  /\ cancelCalls' = IF cancelPhase = "none" THEN Len(calls) ELSE cancelCalls
  /\ cancelRepeated' = (cancelPhase # "none")
  /\ connection' = IF connection = "open" THEN "closed" ELSE connection
  /\ UNCHANGED <<inputVars, storedToken, parserVars, coalescerVars, calls, pc, arrived>>

\* (mutant) the aborted flag is one module-level variable: cancel sets it
\* for every stream
CancelAllStreams ==
  /\ pc # "idle"
  /\ aborted' = IF pc = "noauth" THEN aborted ELSE TRUE
  /\ cancelPhase' = IF cancelPhase = "none" THEN pc ELSE cancelPhase
  /\ cancelCalls' = IF cancelPhase = "none" THEN Len(calls) ELSE cancelCalls
  /\ cancelRepeated' = (cancelPhase # "none")
  /\ connection' = IF connection = "open" THEN "closed" ELSE connection
  /\ other' = IF other.pc = "absent" THEN other ELSE [other EXCEPT !.aborted = TRUE]
  /\ UNCHANGED <<variant, resp, events, wire, chat, nav, storedToken, parserVars,
                 coalescerVars, calls, pc, arrived>>

\* the caller invokes the function the start call returned
Cancel ==
  /\ pc # "idle"
  /\ aborted' = IF pc = "noauth" THEN aborted ELSE TRUE
  /\ cancelPhase' = IF cancelPhase = "none" THEN pc ELSE cancelPhase
  /\ cancelCalls' = IF cancelPhase = "none" THEN Len(calls) ELSE cancelCalls
  /\ cancelRepeated' = (cancelPhase # "none")
  /\ connection' = IF connection = "open" THEN "closed" ELSE connection
  /\ UNCHANGED <<inputVars, storedToken, parserVars, coalescerVars, calls, pc, arrived>>

Next ==
  \/ Start
  \/ FetchResolve
  \/ FetchReject
  \/ ErrorBody
  \/ ReadChunk
  \/ ReadEOF
  \/ ReadFail
  \/ Flush
  \/ Cancel

Spec == Init /\ [][Next]_vars

\* The event loop runs every task that is ready: the call itself, the
\* continuations of settled promises and the timer callbacks; the transport
\* settles every request it was given.  Nothing obliges the caller to cancel.
\* (The body is finite, so it is the end of the body, by end-of-data or by
\* failure, that the transport owes the reader.)
Progress ==
  \/ Start
  \/ FetchResolve
  \/ FetchReject
  \/ ErrorBody
  \/ ReadEOF
  \/ ReadFail
  \/ Flush

FairSpec == Spec /\ WF_vars(Progress)

\* ------------------------------------------------------------ observers
Count(cb) == Cardinality({i \in 1..Len(calls) : calls[i].cb = cb})

Terminals == Count("onComplete") + Count("onError")

\* the concatenation of the onToken arguments of a call sequence, in order
RECURSIVE TokenText(_)
TokenText(cs) ==
  IF cs = <<>> THEN <<>>
  ELSE (IF Head(cs).cb = "onToken" THEN Head(cs).arg ELSE <<>>) \o TokenText(Tail(cs))

\* the calls made after the first cancel call returned
AfterCancel == SubSeq(calls, cancelCalls + 1, Len(calls))

Cancelled == cancelPhase # "none"

\* nothing is left to run: the pump has ended and no timer is pending
Quiescent == pc \in {"ended", "noauth"} /\ timers = 0

\* ---------------------------------------------------------------- claims

\* C1: whatever the wire, the chunking, the timers and the cancel calls do,
\* onComplete and onError are invoked at most once in total per stream.
C1_AtMostOneTerminal == Terminals <= 1

\* a done event followed by more wire, wholly read, and cancel called after
\* the stream had finished
C1_Witness ==
  /\ pc = "ended"
  /\ cancelPhase = "ended"
  /\ Len(events) = 2
  /\ events[1].type = "done"
  /\ pos = Len(wire)
  /\ Terminals = 1

\* C2: when the caller never cancels and the transport settles every
\* request, the stream ends with exactly one of onError / onComplete
\* invoked, and it stays at exactly one.
C2_ExactlyOneTerminal == <>[](Cancelled \/ Terminals = 1)

\* a stream that was never cancelled has run to its done event
C2_Witness ==
  /\ ~Cancelled
  /\ Quiescent
  /\ Count("onComplete") = 1
  /\ Count("onError") = 0
  /\ \E i \in 1..Len(calls) : calls[i] = OnComplete("42")

\* C3: after a cancel call made while the pump is reading, neither onError
\* nor onComplete is invoked, and onToken is invoked at most once more.
C3_CancelMidStream ==
  cancelPhase = "reading" =>
    /\ Len(AfterCancel) <= 1
    /\ \A i \in 1..Len(AfterCancel) : AfterCancel[i].cb = "onToken"

\* cancelled while reading with a flush pending: the pump has ended and the
\* pending flush has delivered its buffer
C3_Witness ==
  /\ cancelPhase = "reading"
  /\ Quiescent
  /\ Len(AfterCancel) = 1
  /\ pos < Len(wire)

\* C4: after a cancel call made while the fetch is still pending, no
\* callback is ever invoked.
C4_CancelBeforeResponse == cancelPhase = "fetching" => calls = <<>>

\* cancelled while fetching, and the pump has ended
C4_Witness == cancelPhase = "fetching" /\ pc = "ended" /\ aborted

\* ------------------------------------ what the backend meant to be shown
IsDone(e) == e.type = "done"

\* index of the first done event (Len + 1 when there is none)
FirstDone(es) ==
  IF \E i \in 1..Len(es) : IsDone(es[i])
    THEN CHOOSE i \in 1..Len(es) : IsDone(es[i]) /\ \A j \in 1..(i - 1) : ~IsDone(es[j])
    ELSE Len(es) + 1

\* the token texts sent before the first done event, concatenated in order
SentTokens(es) == Flatten([i \in 1..(FirstDone(es) - 1) |-> es[i].text])

\* token events only, then exactly one done event, which comes last
TokensThenDone(es) == es # <<>> /\ FirstDone(es) = Len(es)

AllOfForm(es, f) == \A i \in 1..Len(es) : es[i].form = f

\* the arguments of the onComplete calls, in order
CompleteArgs(cs) ==
  LET done == SelectSeq(cs, LAMBDA c : c.cb = "onComplete")
  IN [i \in 1..Len(done) |-> done[i].arg[1]]

\* a run that was neither cancelled nor failed and has nothing left to do
NormalRun ==
  /\ pc = "ended"
  /\ timers = 0
  /\ ~Cancelled
  /\ Count("onError") = 0

\* every token event that precedes the first done event has been read
TokensRead == pos >= Len(EncodeAll(SubSeq(events, 1, FirstDone(events) - 1)))

\* the wire has been read up to the end of its last data line
WireRead == pos >= Len(wire) - 1

\* the payloads that follow `data: ` directly have no surrounding whitespace
\* (the trimming of such payloads is the subject of C6)
PlainPayloads ==
  \A i \in 1..Len(events) :
    events[i].form \in {"named", "raw"} => Trim(events[i].text) = events[i].text

\* C5: in a run without error and without cancel the concatenation of the
\* onToken arguments equals the concatenation of the token texts in wire
\* order, for any mix of named, bare-JSON and bare raw-text tokens (stated
\* for payloads without surrounding whitespace, so that what is checked is
\* the order and the completeness of the delivery).
C5_TokenOrder ==
  (NormalRun /\ TokensRead /\ PlainPayloads) => TokenText(calls) = SentTokens(events)

\* C6: a named-event stream of token events followed by one done event
\* carrying conversation id c delivers the token payloads unchanged,
\* surrounding whitespace included, and invokes onComplete once with c.
C6_NamedStream ==
  (NormalRun /\ WireRead /\ TokensThenDone(events) /\ AllOfForm(events, "named")) =>
    /\ TokenText(calls) = SentTokens(events)
    /\ CompleteArgs(calls) = <<events[Len(events)].cid>>

\* the same events written in the named-event form
AsNamed(es) == [i \in 1..Len(es) |-> [es[i] EXCEPT !.form = "named"]]

\* the complete lines of a text
LinesOf(text) == SubSeq(Split(text), 1, Len(Split(text)) - 1)

\* what a stream delivers when its whole body is processed and flushed
Outcome(text, v) ==
  LET s == ProcessLines([currentEvent |-> Null, visualBuffer |-> <<>>,
                         flushTimeout |-> FALSE, timers |-> 0, calls |-> <<>>,
                         appended |-> <<>>, processed |-> <<>>, returned |-> FALSE],
                        LinesOf(text), v)
  IN [text |-> TokenText(s.calls) \o s.visualBuffer, complete |-> CompleteArgs(s.calls)]

\* C7: token texts followed by a done, written as bare JSON envelopes,
\* deliver the same token text and the same onComplete argument as the same
\* events written in the named-event form.
C7_LegacyEquivalence ==
  (NormalRun /\ WireRead /\ TokensThenDone(events) /\ AllOfForm(events, "legacy")) =>
    [text |-> TokenText(calls), complete |-> CompleteArgs(calls)]
      = Outcome(EncodeAll(AsNamed(events)), variant)

\* C8: the token texts appended between the scheduling of a flush timer
\* and its firing are delivered by exactly one onToken call, whose argument
\* is their concatenation in append order.
C8_Coalescing ==
  [][(timers' < timers /\ appended # <<>>)
       => calls' = Append(calls, OnToken(Flatten(appended)))]_vars

\* two appends ("a", then "b") were delivered by one onToken call
C8_Witness == \E i \in 1..Len(calls) : calls[i] = OnToken(<<"a", "b">>)

\* C9: buffered token text is always eventually delivered, also when the
\* stream completes first: the buffer only grows by appends and is only
\* emptied by an onToken call that carries all of it, and a non-empty buffer
\* is eventually emptied.
C9_BufferDelivered ==
  /\ [][visualBuffer' # visualBuffer =>
          \/ /\ Len(visualBuffer') > Len(visualBuffer)
             /\ SubSeq(visualBuffer', 1, Len(visualBuffer)) = visualBuffer
          \/ /\ visualBuffer' = <<>>
             /\ calls' = Append(calls, OnToken(visualBuffer))]_vars
  /\ [](visualBuffer # <<>> => <>(visualBuffer = <<>>))

\* text that was still buffered at completion was delivered afterwards
C9_Witness ==
  /\ NormalRun
  /\ \E i \in 1..(Len(calls) - 1) :
       calls[i].cb = "onComplete" /\ calls[i + 1].cb = "onToken"

\* the `detail` field of the error body
DetailList == "[{\"msg\":\"field required\"}]"
DetailOf(r) == IF r.body = "detail" THEN <<ServerDetail>> ELSE <<DetailList>>

\* a non-success response has arrived, its body was JSON, and the stream
\* was not cancelled before it ended
ErrorResponseHandled ==
  /\ pc = "ended"
  /\ cancelPhase \in {"none", "ended"}
  /\ ~Ok(resp)
  /\ arrived \in {"response", "errorJson"}

\* C10 as claimed: for every non-success status and in both variants, a JSON
\* body with a non-empty detail field gives exactly one onError whose
\* message equals that detail, and no other callback.
C10_DetailMessage ==
  (ErrorResponseHandled /\ resp.body \in {"detail", "detaillist"}) =>
    calls = <<OnError(DetailOf(resp))>>

\* C10 as amended: a JSON body whose detail is a non-empty string gives
\* exactly one onError and no other callback; its message equals that
\* detail, except for status 401 in streamChat, where it is the fixed
\* session-expired message.
C10_DetailMessageAmended ==
  (ErrorResponseHandled /\ resp.body = "detail") =>
    calls = <<OnError(IF variant = "auth" /\ resp.status = 401
                        THEN <<MsgSessionExpired>>
                        ELSE <<ServerDetail>>)>>

\* status 500 with {"detail":"server overloaded"} has been reported
C10_Witness ==
  /\ ErrorResponseHandled
  /\ resp.status = 500
  /\ resp.body = "detail"
  /\ arrived = "errorJson"
  /\ calls = <<OnError(<<ServerDetail>>)>>

\* a response has arrived and the stream was not cancelled before it ended
ResponseHandled ==
  /\ pc = "ended"
  /\ cancelPhase \in {"none", "ended"}
  /\ arrived \notin {"nothing", "failure"}

\* a non-success response whose body gives no detail: not JSON, JSON
\* without a detail field or with an empty one, or a body that could not
\* be read
NoUsableDetail ==
  /\ ~Ok(resp)
  /\ resp.body \in {"nodetail", "emptydetail", "nonjson"} \/ arrived = "errorUnread"

\* C11 as claimed: a success response without a body, and a non-success
\* response without usable detail, each give exactly one onError and no
\* other callback, no chunk is read, and in the second case the message is
\* the status-based one.
C11_NoBodyNoDetail ==
  (ResponseHandled /\ (resp.body = "none" \/ NoUsableDetail)) =>
    /\ Len(calls) = 1
    /\ calls[1].cb = "onError"
    /\ pos = 0
    /\ NoUsableDetail => calls[1].arg = StatusMessage(resp)

\* C11 as amended: the same, with the message spelled out: the missing-body
\* message in the first case; in the second the status-based message,
\* except for status 401 in streamChat, where it is the fixed
\* session-expired message.
C11_NoBodyNoDetailAmended ==
  (ResponseHandled /\ (resp.body = "none" \/ NoUsableDetail)) =>
    /\ pos = 0
    /\ calls = <<OnError(IF resp.body = "none" THEN <<MsgNoBody>>
                         ELSE IF variant = "auth" /\ resp.status = 401
                           THEN <<MsgSessionExpired>>
                           ELSE StatusMessage(resp))>>

\* a success response without a body has been reported as an error
C11_Witness ==
  /\ ResponseHandled
  /\ resp.body = "none"
  /\ Ok(resp)
  /\ calls = <<OnError(<<MsgNoBody>>)>>

\* streamChat was called without a stored credential (the credential is
\* only ever removed on the arrival of a response)
NoCredentialStart ==
  /\ variant = "auth"
  /\ ~storedToken
  /\ pc # "idle"
  /\ arrived = "nothing"

\* C12: streamChat called without a stored credential invokes onError once
\* within the call itself and never issues a request; from then on no
\* callback fires and nothing changes, however often the returned cancel
\* function is called.
C12_NoCredential ==
  /\ [][(pc = "idle" /\ variant = "auth" /\ ~storedToken) =>
          (pc' = "noauth" /\ calls' = <<OnError(<<MsgNoAuth>>)>>)]_vars
  /\ [](NoCredentialStart =>
          /\ pc = "noauth"
          /\ calls = <<OnError(<<MsgNoAuth>>)>>
          /\ ~aborted
          /\ pos = 0
          /\ timers = 0)
  /\ [][NoCredentialStart =>
          UNCHANGED <<pc, calls, aborted, arrived, storedToken, parserVars,
                      coalescerVars>>]_vars

\* the cancel function of a stream refused for lack of a credential has
\* been called
C12_Witness ==
  /\ NoCredentialStart
  /\ cancelPhase = "noauth"
  /\ calls = <<OnError(<<MsgNoAuth>>)>>

\* the transport failed (the fetch was rejected, or a read was) and the
\* stream was not cancelled before it ended
TransportFailure ==
  /\ pc = "ended"
  /\ arrived \in {"failure", "broken"}
  /\ cancelPhase \in {"none", "ended"}

\* C13: a transport failure that the caller's cancel did not cause, before
\* the response or in the middle of the body after any number of tokens,
\* gives exactly one onError and no onComplete.
C13_TransportFailure ==
  TransportFailure => (Count("onError") = 1 /\ Count("onComplete") = 0)

\* a read failed after a token had already been delivered
C13_Witness ==
  /\ TransportFailure
  /\ arrived = "broken"
  /\ cancelPhase = "none"
  /\ Len(calls) >= 2
  /\ calls[1].cb = "onToken"
  /\ calls[Len(calls)] = OnError(<<MsgNetwork>>)

\* C14: when the transport signals end-of-data before any done event was
\* dispatched, that step invokes onComplete with no conversation id and
\* nothing else, whatever is left in the line buffer: the remainder is
\* neither dispatched nor buffered for delivery; and the stream then has
\* exactly one onComplete and no onError.
C14_EndOfData ==
  /\ [][(arrived' = "eof" /\ arrived # "eof") =>
          /\ calls' = Append(calls, OnComplete(Undefined))
          /\ UNCHANGED <<buffer, currentEvent, visualBuffer, flushTimeout, timers>>]_vars
  /\ [](arrived = "eof" =>
          /\ pc = "ended"
          /\ CompleteArgs(calls) = <<Undefined>>
          /\ Count("onError") = 0)

\* the body ended in the middle of a data line: the stream has completed
\* and the partial line is still in the buffer
C14_Witness ==
  /\ arrived = "eof"
  /\ timers = 0
  /\ StartsWith(buffer, <<DataField>>)
  /\ Len(buffer) >= 3
  /\ CompleteArgs(calls) = <<Undefined>>
  /\ Count("onError") = 0

\* the pump ended by the `return` of a done event: the response was a
\* stream, and neither end-of-data nor a failure ended it
EndedByDone ==
  /\ pc = "ended"
  /\ resp.body = "stream"
  /\ Ok(resp)
  /\ arrived = "response"

\* the first done event of the wire is a named one with an unparsable payload
FirstDoneUnparsable ==
  /\ FirstDone(events) <= Len(events)
  /\ events[FirstDone(events)].form = "named"
  /\ events[FirstDone(events)].text # <<>>
  /\ ~JsonValid(events[FirstDone(events)].text)

\* C15: a named done event whose data payload is not parsable JSON
\* completes the stream: onComplete is invoked exactly once, with an
\* undefined conversation id, and onError is not invoked.
C15_UnparsableDone ==
  (EndedByDone /\ FirstDoneUnparsable) =>
    /\ CompleteArgs(calls) = <<Undefined>>
    /\ Count("onError") = 0

\* `event: done` followed by `data: {not json` has been dispatched after a
\* token event
C15_Witness ==
  /\ EndedByDone
  /\ FirstDoneUnparsable
  /\ FirstDone(events) = 2
  /\ timers = 0
  /\ CompleteArgs(calls) = <<Undefined>>
  /\ Count("onToken") = 1

\* everything but the bookkeeping of the cancel calls
streamVars ==
  <<inputVars, storedToken, pc, aborted, parserVars, coalescerVars, calls, arrived,
    connection>>

\* C16: a second or later call of the returned cancel function changes
\* nothing: the stream state, and with it what can still happen, is what
\* the first call left.
C16_CancelIdempotent ==
  [][(~cancelRepeated /\ cancelRepeated') => UNCHANGED streamVars]_vars

\* cancel was called twice while the pump was reading, with a flush pending
C16_Witness ==
  /\ cancelRepeated
  /\ cancelPhase = "reading"
  /\ pc = "reading"
  /\ aborted
  /\ timers > 0

\* C17: on every terminal transition (completion by a done event,
\* completion by end-of-data, error, cancellation) the transport connection
\* is released: once the pump has ended the response body stream is not
\* left open.
C17_ConnectionReleased == pc = "ended" => connection # "open"

\* the text decoded from the part of the body read so far
TextRead == Decode(<<>>, SubSeq(wire, 1, pos)).text

\* C18: however the body is cut into chunks, the lines handed to the line
\* loop are the newline-terminated lines of the text read so far, each once
\* and in order, none containing a newline, and the line buffer holds the
\* unterminated rest; only the `return` of a done event ends the iteration
\* early, and what was processed by then is still an initial part of those
\* lines.
C18_LineReassembly ==
  \E pieces \in {Split(TextRead)} :
  \E lines \in {SubSeq(pieces, 1, Len(pieces) - 1)} :
    /\ \A i \in 1..Len(processed) : \A j \in 1..Len(processed[i]) : processed[i][j] # NL
    /\ Len(processed) <= Len(lines)
    /\ processed = SubSeq(lines, 1, Len(processed))
    /\ ~EndedByDone => (processed = lines /\ buffer = pieces[Len(pieces)])

\* three lines have been processed and the beginning of a fourth, cut by
\* the end of a chunk, waits in the line buffer
C18_Witness ==
  /\ pc = "reading"
  /\ Len(processed) = 3
  /\ buffer = <<DataField, SP>>
  /\ pos < Len(wire)

\* ------------------------------------------------ arbitrary body bytes
\* The same stream over bodies that are not built from events: a `data: `
\* field followed by any bytes, among them the two bytes of a two-byte
\* character, newlines and ASCII.
MaxBytes == 3
ByteAlphabet == {"a", NL, Lead, Cont}
ByteSeqs == UNION {[1..n -> ByteAlphabet] : n \in 0..MaxBytes}

InitBytes ==
  /\ other = NoStream
  /\ NoViews
  /\ variant \in {"auth", "public"}
  /\ storedToken \in (IF variant = "auth" THEN BOOLEAN ELSE {FALSE})
  /\ resp \in Responses
  /\ events = <<>>
  /\ wire \in (IF resp.body = "stream"
                 THEN {<<DataField, SP>> \o b : b \in ByteSeqs}
                 ELSE {<<>>})
  /\ InitState

SpecBytes == InitBytes /\ [][Next]_vars

\* the bytes are well-formed UTF-8: a lead byte is followed by its
\* continuation byte, and no continuation byte stands alone
RECURSIVE ValidUtf8(_)
ValidUtf8(b) ==
  IF b = <<>> THEN TRUE
  ELSE IF Head(b) = Lead THEN Len(b) >= 2 /\ b[2] = Cont /\ ValidUtf8(SubSeq(b, 3, Len(b)))
  ELSE Head(b) # Cont /\ ValidUtf8(Tail(b))

\* the characters of an initial part of well-formed bytes, decoded as one
\* piece (a lead byte at its very end has no character yet)
RECURSIVE Utf8Text(_)
Utf8Text(b) ==
  IF b = <<>> THEN <<>>
  ELSE IF Head(b) = Lead
    THEN (IF Len(b) >= 2 THEN <<CharTwoByte>> \o Utf8Text(SubSeq(b, 3, Len(b))) ELSE <<>>)
  ELSE <<Head(b)>> \o Utf8Text(Tail(b))

\* the text the line reassembler has been fed: the lines it has cut off,
\* each with its newline, and what it still holds
FedText ==
  Flatten([i \in 1..Len(processed) |-> Append(processed[i], NL)]) \o buffer

\* C19: when the body is well-formed UTF-8, the text fed to the line
\* reassembler chunk by chunk is the decoding of all the bytes read so far
\* taken as one piece, wherever the chunk boundaries fall, also between
\* the two bytes of a character.
C19_ChunkedDecoding ==
  ValidUtf8(wire) => FedText = Utf8Text(SubSeq(wire, 1, pos))

\* a chunk has ended between the two bytes of a character: the first byte
\* is held back by the decoder and the text fed so far stops before it
C19_Witness ==
  /\ ValidUtf8(wire)
  /\ pc = "reading"
  /\ wire = <<DataField, SP, "a", Lead, Cont>>
  /\ pos = 4
  /\ decoderPending = <<Lead>>
  /\ buffer = <<DataField, SP, "a">>

\* ----------------------------------------------------------- two streams
\* Two calls, each with its own closure (aborted, visualBuffer,
\* flushTimeout, buffer, currentEvent, decoder, reader, abortController)
\* and its own callbacks.  The event loop runs one task at a time: the
\* variables of the model hold the stream whose task runs, `other` holds
\* the closure of the stream that waits, and Switch hands over to it.  Only
\* the credential store is common to both.
StreamState ==
  [variant |-> variant, resp |-> resp, events |-> events, wire |-> wire,
   pos |-> pos, pc |-> pc, aborted |-> aborted, decoderPending |-> decoderPending,
   buffer |-> buffer, currentEvent |-> currentEvent, visualBuffer |-> visualBuffer,
   flushTimeout |-> flushTimeout, timers |-> timers, calls |-> calls,
   appended |-> appended, arrived |-> arrived, cancelPhase |-> cancelPhase,
   cancelCalls |-> cancelCalls, cancelRepeated |-> cancelRepeated,
   connection |-> connection, processed |-> processed]

\* a stream that has not been started
IdleStream(v, r, es) ==
  [variant |-> v, resp |-> r, events |-> es, wire |-> EncodeAll(es),
   pos |-> 0, pc |-> "idle", aborted |-> FALSE, decoderPending |-> <<>>,
   buffer |-> <<>>, currentEvent |-> Null, visualBuffer |-> <<>>,
   flushTimeout |-> FALSE, timers |-> 0, calls |-> <<>>,
   appended |-> <<>>, arrived |-> "nothing", cancelPhase |-> "none",
   cancelCalls |-> 0, cancelRepeated |-> FALSE,
   connection |-> "none", processed |-> <<>>]

\* the next task belongs to the other stream
Switch ==
  /\ other # NoStream
  /\ other' = StreamState
  /\ variant' = other.variant
  /\ resp' = other.resp
  /\ events' = other.events
  /\ wire' = other.wire
  /\ pos' = other.pos
  /\ pc' = other.pc
  /\ aborted' = other.aborted
  /\ decoderPending' = other.decoderPending
  /\ buffer' = other.buffer
  /\ currentEvent' = other.currentEvent
  /\ visualBuffer' = other.visualBuffer
  /\ flushTimeout' = other.flushTimeout
  /\ timers' = other.timers
  /\ calls' = other.calls
  /\ appended' = other.appended
  /\ arrived' = other.arrived
  /\ cancelPhase' = other.cancelPhase
  /\ cancelCalls' = other.cancelCalls
  /\ cancelRepeated' = other.cancelRepeated
  /\ connection' = other.connection
  /\ processed' = other.processed
  /\ UNCHANGED <<storedToken, chat, nav>>

\* a streamChat answered by a token and a done event or by status 401, and
\* a second stream of either kind answered by a token and end-of-data or by
\* status 500
PairAuthResponses ==
  {[status |-> 200, body |-> "stream"], [status |-> 401, body |-> "nodetail"]}
PairOtherResponses ==
  {[status |-> 200, body |-> "stream"], [status |-> 500, body |-> "detail"]}
PairAuthEvents ==
  <<[type |-> "token", text |-> <<"a">>, cid |-> Undefined, form |-> "named"],
    [type |-> "done", text |-> <<>>, cid |-> "42", form |-> "named"]>>
PairOtherEvents ==
  <<[type |-> "token", text |-> <<SP, "b">>, cid |-> Undefined, form |-> "legacy"]>>

InitPair ==
  /\ NoViews
  /\ variant = "auth"
  /\ storedToken = TRUE
  /\ resp \in PairAuthResponses
  /\ events = (IF resp.body = "stream" THEN PairAuthEvents ELSE <<>>)
  /\ wire = EncodeAll(events)
  /\ InitState
  /\ other \in {IdleStream(v, r, IF r.body = "stream" THEN PairOtherEvents ELSE <<>>) :
                   v \in {"auth", "public"}, r \in PairOtherResponses}

NextPair == Next \/ Switch

SpecPair == InitPair /\ [][NextPair]_vars

CountIn(cs, cb) == Cardinality({i \in 1..Len(cs) : cs[i].cb = cb})

\* what a stream owes its caller when it is never cancelled: one terminal
\* callback once it has ended, and, once a run without error has nothing
\* left to do, the token text of the lines it has read
StreamDelivered(st) ==
  /\ (st.cancelPhase = "none" /\ st.pc \in {"ended", "noauth"}) =>
       CountIn(st.calls, "onComplete") + CountIn(st.calls, "onError") = 1
  /\ (st.cancelPhase = "none" /\ st.pc = "ended" /\ st.timers = 0
        /\ CountIn(st.calls, "onError") = 0) =>
       TokenText(st.calls)
         = Outcome(Decode(<<>>, SubSeq(st.wire, 1, st.pos)).text, st.variant).text

\* C20: of two streams running concurrently, every step of one (chunk
\* processing, flush, cancel, error, completion) leaves the whole closure
\* of the other as it was: its line buffer, pending event name, coalescing
\* buffer, flush timer and aborted flag among the rest; and a stream that
\* is not cancelled itself gets all its callbacks whatever happens to the
\* other, its cancellation included.
C20_Independent ==
  /\ [][other' # other => (other' = StreamState /\ StreamState' = other)]_vars
  /\ [](StreamDelivered(StreamState) /\ StreamDelivered(other))

\* the streamChat was cancelled while reading; the streamChatPublic, never
\* cancelled, has delivered its token and completed
C20_Witness ==
  /\ variant = "public"
  /\ NormalRun
  /\ calls = <<OnToken(<<SP, "b">>), OnComplete(Undefined)>>
  /\ other.variant = "auth"
  /\ other.cancelPhase = "reading"
  /\ other.aborted
  /\ other.pc = "ended"

\* C21: onToken is only ever invoked by the flush timer, never by the line
\* loop itself: a bare JSON token envelope, like every other token, goes
\* through the coalescing buffer.
C21_TokensOnlyByFlush ==
  [][Count("onToken")' > Count("onToken") => (timers' < timers /\ pos' = pos)]_vars

\* C22: a flush with a non-empty buffer makes exactly one onToken call,
\* which carries the whole buffer, and leaves the buffer empty and no flush
\* scheduled; a flush with an empty buffer makes no call.  Hence the text
\* delivered so far and the text still buffered together are the token text
\* of the lines processed, character for character: nothing is delivered
\* twice.
C22_FlushDeliversOnce ==
  /\ [][timers' < timers =>
          /\ calls' = IF visualBuffer # <<>> THEN Append(calls, OnToken(visualBuffer))
                                              ELSE calls
          /\ visualBuffer' = <<>>
          /\ flushTimeout' = FALSE]_vars
  /\ [](\E expected \in {Outcome(TextRead, variant).text} :
          Len(TokenText(calls)) + Len(visualBuffer) = Len(expected))

\* two flushes have delivered one token each and the buffer is empty
C22_Witness ==
  /\ calls = <<OnToken(<<"a">>), OnToken(<<SP, "b">>)>>
  /\ visualBuffer = <<>>
  /\ ~flushTimeout
  /\ timers = 0

\* C23: whenever the coalescing buffer is non-empty a flush timer is
\* pending, and never more than one timer is pending: flushTimeout is set
\* exactly while one is.
C23_OneTimer ==
  /\ timers \in {0, 1}
  /\ flushTimeout <=> timers = 1
  /\ visualBuffer # <<>> => timers = 1

\* two token texts were appended under one pending timer
C23_Witness ==
  /\ Len(appended) = 2
  /\ visualBuffer = Flatten(appended)
  /\ flushTimeout
  /\ timers = 1

\* the lines of the wire up to the data line of its first done event
LinesToFirstDone ==
  LET lines == LinesOf(EncodeAll(SubSeq(events, 1, FirstDone(events))))
  IN SubSeq(lines, 1, Len(lines) - 1)

\* C24: once a done event, named or bare, has been dispatched, nothing of
\* that stream is processed any more: the lines processed are those up to
\* the data line of the first done event, also when more lines came in the
\* same chunk; no further chunk is read, nothing is appended to the
\* coalescing buffer, and the only callback still possible is the onToken of
\* a flush that was pending.
C24_NothingAfterDone ==
  /\ [](EndedByDone => processed = LinesToFirstDone)
  /\ [][EndedByDone =>
          /\ UNCHANGED <<pos, processed, buffer, currentEvent, pc>>
          /\ visualBuffer' \in {visualBuffer, <<>>}
          /\ calls' \in {calls, Append(calls, OnToken(visualBuffer))}]_vars

\* a bare done envelope and a token event after it arrived in one chunk:
\* the stream has completed and the token went nowhere
C24_Witness ==
  /\ EndedByDone
  /\ Len(events) = 2
  /\ events[1].type = "done"
  /\ events[1].form = "legacy"
  /\ events[2].type = "token"
  /\ pos = Len(wire)
  /\ Len(calls) = 1
  /\ visualBuffer = <<>>
  /\ timers = 0

\* ------------------------------------------------- arbitrary body lines
\* The same stream over bodies that are any sequence of lines a server can
\* write: event lines (token, done, an unknown name), data lines (raw text,
\* a bare done envelope, an empty payload) and blank lines.
MaxLines == 3
LineAlphabet ==
  {<<EventField, SP, "token">>, <<EventField, SP, "done">>, <<EventField, SP, "ping">>,
   <<DataField, SP, "a">>, <<DataField, SP, JsonDoneEmpty>>, <<DataField, SP>>, <<>>}
LineSeqs == UNION {[1..n -> LineAlphabet] : n \in 0..MaxLines}
WireOfLines(ls) == Flatten([i \in 1..Len(ls) |-> Append(ls[i], NL)])

InitLines ==
  /\ other = NoStream
  /\ NoViews
  /\ variant \in {"auth", "public"}
  /\ storedToken \in (IF variant = "auth" THEN BOOLEAN ELSE {FALSE})
  /\ resp \in Responses
  /\ events = <<>>
  /\ wire \in (IF resp.body = "stream" THEN {WireOfLines(ls) : ls \in LineSeqs} ELSE {<<>>})
  /\ InitState

SpecLines == InitLines /\ [][Next]_vars

\* a step that has handed exactly one more line to the line loop, and that
\* line, trimmed (every line of a body is processed by such a step under
\* some chunking)
OneLineStep == Len(processed') = Len(processed) + 1
NewLine == Trim(processed'[Len(processed')])
IsEventLine(l) == StartsWith(l, <<EventField, SP>>)
IsDataLine(l) == StartsWith(l, <<DataField, SP>>)

\* C25: the pending event name is set by an `event: ` line, cleared by a
\* blank line and changed by nothing else, neither by a data line nor by
\* the end of a chunk; so every data line under a pending `token` is
\* appended as token text, whatever its payload and whichever chunk it came
\* in, and a bare done envelope after the blank line is read as an envelope
\* again.
C25_PendingEventName ==
  [][/\ processed' = processed => currentEvent' = currentEvent
     /\ OneLineStep =>
          /\ IsEventLine(NewLine) => currentEvent' = Trim(SliceFrom(NewLine, 2))
          /\ (NewLine = <<>> /\ currentEvent # <<"done">>) => currentEvent' = Null
          /\ (NewLine # <<>> /\ ~IsEventLine(NewLine)) => currentEvent' = currentEvent
          /\ (IsDataLine(NewLine) /\ currentEvent = <<"token">>) =>
               /\ visualBuffer' = visualBuffer \o SliceFrom(NewLine, 2)
               /\ calls' = calls
          /\ (IsDataLine(NewLine) /\ currentEvent = Null
                /\ SliceFrom(NewLine, 2) = <<JsonDoneEmpty>>) =>
               calls' = Append(calls, OnComplete(Undefined))]_vars

\* one `event: token` line, then two data lines: both were appended as
\* token text, the second being a done envelope, and the name is still
\* pending
C25_Witness ==
  /\ processed = <<<<EventField, SP, "token">>, <<DataField, SP, "a">>,
                   <<DataField, SP, JsonDoneEmpty>>>>
  /\ currentEvent = <<"token">>
  /\ visualBuffer = <<"a", JsonDoneEmpty>>
  /\ pc = "reading"

\* C26: a `data: ` line whose payload is empty after trimming has no
\* effect: no callback, no change of the coalescing buffer, of the flush
\* timer or of the pending event name, and the stream goes on; a non-empty
\* payload under a pending `token` or `done`, or under no event name, takes
\* effect in the very step that processes its line, before any blank line.
C26_DataLine ==
  [][OneLineStep =>
       /\ NewLine = <<DataField>> =>
            /\ UNCHANGED <<calls, visualBuffer, flushTimeout, timers, currentEvent>>
            /\ pc' = "reading"
       /\ (IsDataLine(NewLine) /\ currentEvent \in {Null, <<"token">>, <<"done">>}) =>
            (calls' # calls \/ visualBuffer' # visualBuffer)]_vars

\* under a pending `token` an empty data line was processed and left no
\* trace; the data line after it was appended at once
C26_Witness ==
  /\ processed = <<<<EventField, SP, "token">>, <<DataField, SP>>, <<DataField, SP, "a">>>>
  /\ currentEvent = <<"token">>
  /\ appended = <<<<"a">>>>
  /\ calls = <<>>
  /\ timers = 1

\* a blank line was processed while `done` was the pending event name:
\* the last event line before it is `event: done` and no data line with a
\* payload came in between
DoneThenBlank ==
  /\ Len(processed) >= 2
  /\ Trim(processed[Len(processed)]) = <<>>
  /\ \E i \in 1..(Len(processed) - 1) :
       /\ Trim(processed[i]) = <<EventField, SP, "done">>
       /\ \A j \in (i + 1)..(Len(processed) - 1) : Trim(processed[j]) = <<DataField>>

\* C28: a blank line processed while `done` is the pending event name
\* completes the stream there: onComplete is invoked once, without
\* conversation id, and the pump ends; a blank line under any other pending
\* name, or none, invokes no callback and only clears the name.
C28_BlankLine ==
  /\ [][(OneLineStep /\ NewLine = <<>>) =>
          IF currentEvent = <<"done">>
            THEN /\ calls' = Append(calls, OnComplete(Undefined))
                 /\ pc' = "ended"
            ELSE /\ UNCHANGED <<calls, visualBuffer, flushTimeout, timers>>
                 /\ currentEvent' = Null
                 /\ pc' = "reading"]_vars
  /\ [](DoneThenBlank =>
          /\ pc = "ended"
          /\ CompleteArgs(calls) = <<Undefined>>
          /\ Count("onError") = 0)

\* `event: done`, a data line without payload and a blank line: the stream
\* has completed at the blank line
C28_Witness ==
  /\ processed = <<<<EventField, SP, "done">>, <<DataField, SP>>, <<>>>>
  /\ pc = "ended"
  /\ calls = <<OnComplete(Undefined)>>

FairSpecBytes == SpecBytes /\ WF_vars(Progress)

\* C27: a data line under no pending event name whose payload is not JSON
\* appends that payload as it is to the coalescing buffer and invokes no
\* callback, the stream going on; the buffer is only emptied by an onToken
\* call that carries it, and it is eventually emptied.
C27_RawFallback ==
  /\ [][(OneLineStep /\ IsDataLine(NewLine) /\ currentEvent = Null
          /\ ~JsonValid(SliceFrom(NewLine, 2))) =>
          /\ visualBuffer' = visualBuffer \o SliceFrom(NewLine, 2)
          /\ calls' = calls
          /\ pc' = "reading"]_vars
  /\ [][(visualBuffer # <<>> /\ visualBuffer' = <<>>) =>
          calls' = Append(calls, OnToken(visualBuffer))]_vars
  /\ [](visualBuffer # <<>> => <>(visualBuffer = <<>>))

\* the body `data: ` followed by a two-byte character and a newline: the
\* character has been delivered as a token and nothing else was called
C27_Witness ==
  /\ wire = <<DataField, SP, Lead, Cont, NL>>
  /\ calls = <<OnToken(<<CharTwoByte>>)>>
  /\ visualBuffer = <<>>
  /\ pc = "reading"

\* C29: completion, by a done event or by end-of-data, neither flushes the
\* coalescing buffer nor touches the flush timer: the step that invokes
\* onComplete ends with that call, keeps what was buffered and keeps the
\* timer pending; and the flush that fires after completion still delivers
\* the buffer by onToken.
C29_NoFlushAtCompletion ==
  /\ [][Count("onComplete")' > Count("onComplete") =>
          /\ calls'[Len(calls')].cb = "onComplete"
          /\ Len(visualBuffer') >= Len(visualBuffer)
          /\ SubSeq(visualBuffer', 1, Len(visualBuffer)) = visualBuffer
          /\ timers' >= timers
          /\ visualBuffer' # <<>> => (flushTimeout' /\ timers' = 1)]_vars
  /\ [][(Count("onComplete") = 1 /\ timers' < timers /\ visualBuffer # <<>>) =>
          calls' = Append(calls, OnToken(visualBuffer))]_vars

\* a named token and its done event arrived before the timer fired:
\* onComplete was invoked first, the token text after it
C29_Witness ==
  /\ variant = "public"
  /\ calls = <<OnComplete("42"), OnToken(<<"a">>)>>
  /\ timers = 0
  /\ cancelPhase = "none"

\* well-formed bytes, possibly cut after the first byte of a character
WellFormedPrefix(b) ==
  \/ ValidUtf8(b)
  \/ b # <<>> /\ b[Len(b)] = Lead /\ ValidUtf8(SubSeq(b, 1, Len(b) - 1))

\* C30: once malformed UTF-8 has been read, a stream that was not cancelled
\* has ended with onError and without onComplete, and no onToken call ever
\* carries text made of malformed bytes (the replacement character); bytes
\* that are well-formed but end in the middle of a character raise no
\* error.
C30_MalformedAborts ==
  /\ (~WellFormedPrefix(SubSeq(wire, 1, pos)) /\ ~Cancelled) =>
       (pc = "ended" /\ Count("onError") = 1 /\ Count("onComplete") = 0)
  /\ \A i \in 1..Len(calls) :
       calls[i].cb = "onToken" => \A j \in 1..Len(calls[i].arg) : calls[i].arg[j] # Replacement
  /\ (WellFormedPrefix(SubSeq(wire, 1, pos)) /\ pos > 0 /\ arrived \in {"response", "eof"}) =>
       Count("onError") = 0


\* ------------------------------------------------- bodies of JSON payloads
\* a response body made of up to MaxLines lines, each a bare data line whose
\* payload is a JSON text, an `event: ping` line or a blank line
JsonLineAlphabet ==
  {<<EventField, SP, "ping">>, <<>>,
   <<DataField, SP, JsonTokenA>>, <<DataField, SP, JsonNumber>>,
   <<DataField, SP, JsonString>>, <<DataField, SP, JsonPing>>,
   <<DataField, SP, JsonTokenNoData>>, <<DataField, SP, JsonNull>>}
JsonLineSeqs == UNION {[1..n -> JsonLineAlphabet] : n \in 0..MaxLines}

InitJson ==
  /\ other = NoStream
  /\ NoViews
  /\ variant \in {"auth", "public"}
  /\ storedToken \in (IF variant = "auth" THEN BOOLEAN ELSE {FALSE})
  /\ resp \in Responses
  /\ events = <<>>
  /\ wire \in (IF resp.body = "stream" THEN {WireOfLines(ls) : ls \in JsonLineSeqs} ELSE {<<>>})
  /\ InitState

SpecJson == InitJson /\ [][Next]_vars

\* the payload is JSON text that is neither a token envelope with a truthy
\* data field nor a done envelope
NotAnEnvelope(t) ==
  /\ JsonValid(t)
  /\ t[1] \notin {JsonTokenA, JsonTokenSpB, JsonDoneEmpty, JsonDoneCid}

\* C31: a data line whose payload is valid JSON but neither a token
\* envelope with a truthy data field nor a done envelope, met while the
\* pending event name is neither token nor done, invokes no callback and
\* leaves the coalescing buffer, the flush timer and the pending event name
\* unchanged, the stream going on.
C31_BareJsonIgnored ==
  [][(OneLineStep /\ IsDataLine(NewLine) /\ NotAnEnvelope(SliceFrom(NewLine, 2))
        /\ currentEvent \notin {<<"token">>, <<"done">>}) =>
        /\ UNCHANGED <<calls, visualBuffer, flushTimeout, timers, currentEvent>>
        /\ pc' = "reading"]_vars


\* the authenticated stream has ended and the server's answer to its request
\* is 401
Answered401 == variant = "auth" /\ resp.status = 401 /\ pc = "ended"

\* C32: in the authenticated variant a 401 answer removes the stored
\* credential; a stream that was not cancelled before makes exactly one
\* onError call, with the session-expired message; a stream that had
\* already been cancelled loses the credential too and makes no call.
C32_CredentialRemoved ==
  (Answered401 /\ (arrived = "response" \/ cancelPhase = "fetching")) =>
    /\ ~storedToken
    /\ calls = IF cancelPhase = "fetching" THEN <<>> ELSE <<OnError(<<MsgSessionExpired>>)>>

\* C32 (amended): a 401 response that reaches authenticatedFetch removes the
\* stored credential and makes exactly one onError call, with the
\* session-expired message, whatever is cancelled afterwards; a stream
\* cancelled while its request is pending never sees the response: the
\* fetch rejects, the credential stays stored and no callback is made.
C32_CredentialRemovedAmended ==
  /\ (Answered401 /\ arrived = "response") =>
       (~storedToken /\ calls = <<OnError(<<MsgSessionExpired>>)>>)
  /\ (Answered401 /\ cancelPhase = "fetching") =>
       (arrived = "failure" /\ storedToken /\ calls = <<>>)

\* a 401 response has arrived at a stream nobody cancelled: the credential
\* is gone and the session-expired error was reported
C32_Witness ==
  /\ Answered401
  /\ arrived = "response"
  /\ cancelPhase = "none"
  /\ ~storedToken
  /\ calls = <<OnError(<<MsgSessionExpired>>)>>


\* ------------------------------------------------------------ chat views
\* Chat.vue and ChatPublic.vue.  A view talks to its streams through the
\* three callbacks only, so a stream is kept here by what decides its
\* callbacks: whether it still runs, its aborted flag, its coalescing buffer
\* and flush timer.  The variables of the stream client keep the values of
\* an idle client; the credential store is the one the client uses.
MaxSends == 2
MaxTokens == 1
MaxPage == 3

clientVars ==
  <<variant, resp, events, wire, other, pos, pc, aborted, decoderPending, buffer,
    currentEvent, visualBuffer, flushTimeout, timers, calls, appended, arrived,
    cancelPhase, cancelCalls, cancelRepeated, connection, processed>>

\* the client as it is before any call
IdleClient ==
  /\ other = NoStream
  /\ variant = "public"
  /\ resp = [status |-> 200, body |-> "stream"]
  /\ events = <<>>
  /\ wire = <<>>
  /\ InitState

MsgHistory == "historial"
MsgWelcome == "Hola, soy tu asistente inteligente."
MsgPregunta == "pregunta"

\* interface Mensaje (cargando is FALSE where the source leaves it out)
Mensaje(id, texto, esUsuario, cargando) ==
  [id |-> id, texto |-> texto, esUsuario |-> esUsuario, cargando |-> cargando]

\* convertirMensaje applied to the messages of page p of the server, which
\* stand here as one message whose id is the page number
PageMessages(p) == <<Mensaje(p, <<MsgHistory>>, FALSE, FALSE)>>

\* the welcome message of Chat.vue
Welcome == <<Mensaje(-1, <<MsgWelcome>>, FALSE, FALSE)>>

\* the closure of one streamChat / streamChatPublic call made by
\* enviarMensaje, with the locals of enviarMensaje its callbacks use
NewStream(mensajeCargaId) ==
  [mensajeCarga |-> mensajeCargaId, respuestaCompleta |-> <<>>,
   visualBuffer |-> <<>>, flushTimeout |-> FALSE, aborted |-> FALSE,
   ended |-> FALSE, lines |-> 0, error |-> <<>>]

\* the refs and module-level variables of a view after onMounted has run
\* (conversationId, which only selects the endpoint a request goes to, and
\* the form inputs are left out; mensajeIdCounter stands for Date.now() in
\* Chat.vue)
MountedChat ==
  [view |-> "Chat", mensajes |-> <<>>, enviando |-> FALSE, cancelStream |-> 0,
   cargandoMensajes |-> TRUE, currentPage |-> 1,
   hasMoreMessages |-> FALSE, isLoadingMore |-> FALSE, mensajeIdCounter |-> 100,
   streams |-> <<>>, reloads |-> 1, loading |-> <<>>]

MountedChatPublic ==
  [view |-> "ChatPublic", mensajes |-> <<Mensaje(0, <<MsgWelcome>>, FALSE, FALSE)>>,
   enviando |-> FALSE, cancelStream |-> 0,
   cargandoMensajes |-> FALSE, currentPage |-> 1,
   hasMoreMessages |-> FALSE, isLoadingMore |-> FALSE, mensajeIdCounter |-> 1,
   streams |-> <<>>, reloads |-> 0, loading |-> <<>>]

InitChat ==
  /\ IdleClient
  /\ nav = NoNav
  /\ \/ chat = MountedChat /\ storedToken = TRUE
     \/ chat = MountedChatPublic /\ storedToken = FALSE


\* mensajes.value[indexCarga] = {...} where indexCarga is the index of the
\* message whose id is that of the placeholder; nothing when there is none
ReplaceCarga(ms, id, texto) ==
  [k \in 1..Len(ms) |->
     IF ms[k].id = id /\ \A j \in 1..(k - 1) : ms[j].id # id
       THEN Mensaje(id, texto, FALSE, FALSE)
       ELSE ms[k]]

\* cargarMensajesIniciales up to its first await
cargarMensajesIniciales(c) ==
  IF ~storedToken THEN c
  ELSE [c EXCEPT !.cargandoMensajes = TRUE, !.reloads = @ + 1]

\* the onToken callback enviarMensaje hands to its stream
ViewOnToken(c, i, token) ==
  LET respuestaCompleta == c.streams[i].respuestaCompleta \o token IN
  [c EXCEPT !.streams[i].respuestaCompleta = respuestaCompleta,
            !.mensajes = ReplaceCarga(@, c.streams[i].mensajeCarga, respuestaCompleta)]

\* the onError callback enviarMensaje hands to its stream
ViewOnError(c, i, message) ==
  [c EXCEPT !.mensajes = ReplaceCarga(@, c.streams[i].mensajeCarga, message),
            !.enviando = FALSE,
            !.streams[i].error = message]

\* the onComplete callback enviarMensaje hands to its stream
ViewOnComplete(c, i, newConversationId) ==
  LET d == IF c.view = "Chat" /\ newConversationId # Undefined
             THEN cargarMensajesIniciales(c)
             ELSE c
  IN [d EXCEPT !.enviando = FALSE, !.cancelStream = 0]

\* (mutant) enviarMensaje without the test of enviando
enviarMensajeWhileSending ==
  /\ Len(chat.streams) < MaxSends
  /\ IF chat.view = "Chat" /\ ~storedToken
       THEN UNCHANGED chat
       ELSE LET id == chat.mensajeIdCounter IN
            chat' = [chat EXCEPT
                       !.mensajes = @ \o <<Mensaje(id, <<MsgPregunta>>, TRUE, FALSE),
                                          Mensaje(id + 1, <<>>, FALSE, TRUE)>>,
                       !.mensajeIdCounter = id + 2,
                       !.enviando = TRUE,
                       !.streams = Append(@, NewStream(id + 1)),
                       !.cancelStream = Len(chat.streams) + 1]
  /\ UNCHANGED <<storedToken, nav, clientVars>>

\* enviarMensaje with a non-empty question, the synchronous part of the
\* stream call included
enviarMensaje ==
  /\ Len(chat.streams) < MaxSends
  /\ IF chat.enviando \/ (chat.view = "Chat" /\ ~storedToken)
       THEN UNCHANGED chat
       ELSE LET id == chat.mensajeIdCounter IN
            chat' = [chat EXCEPT
                       !.mensajes = @ \o <<Mensaje(id, <<MsgPregunta>>, TRUE, FALSE),
                                          Mensaje(id + 1, <<>>, FALSE, TRUE)>>,
                       !.mensajeIdCounter = id + 2,
                       !.enviando = TRUE,
                       !.streams = Append(@, NewStream(id + 1)),
                       !.cancelStream = Len(chat.streams) + 1]
  /\ UNCHANGED <<storedToken, nav, clientVars>>

\* cancelarStream
cancelarStream ==
  /\ IF chat.cancelStream # 0
       THEN chat' = [chat EXCEPT !.streams[chat.cancelStream].aborted = TRUE,
                                 !.cancelStream = 0,
                                 !.enviando = FALSE]
       ELSE UNCHANGED chat
  /\ UNCHANGED <<storedToken, nav, clientVars>>

\* the token lines the streams of a view have processed so far
RECURSIVE SumLines(_)
SumLines(ss) == IF ss = <<>> THEN 0 ELSE Head(ss).lines + SumLines(Tail(ss))
TokenLines(c) == SumLines(c.streams)

\* a stream that runs processes a token line: the text goes to the
\* coalescing buffer and the flush timer is set, or, for the bare token
\* envelope of streamChat, straight to onToken
StreamToken ==
  /\ \E i \in 1..Len(chat.streams) :
       /\ ~chat.streams[i].ended
       /\ ~chat.streams[i].aborted
       /\ TokenLines(chat) < MaxTokens
       /\ \E direct \in (IF chat.view = "Chat" THEN BOOLEAN ELSE {FALSE}) :
            chat' = IF direct
                      THEN ViewOnToken([chat EXCEPT !.streams[i].lines = @ + 1], i, <<"a">>)
                      ELSE [chat EXCEPT !.streams[i].lines = @ + 1,
                                        !.streams[i].visualBuffer = @ \o <<"a">>,
                                        !.streams[i].flushTimeout = TRUE]
  /\ UNCHANGED <<storedToken, nav, clientVars>>

\* the flush timer of a stream fires, whatever has become of the stream
StreamFlush ==
  /\ \E i \in 1..Len(chat.streams) :
       /\ chat.streams[i].flushTimeout
       /\ LET c == [chat EXCEPT !.streams[i].visualBuffer = <<>>,
                                !.streams[i].flushTimeout = FALSE]
          IN chat' = IF chat.streams[i].visualBuffer # <<>>
                       THEN ViewOnToken(c, i, chat.streams[i].visualBuffer)
                       ELSE c
  /\ UNCHANGED <<storedToken, nav, clientVars>>

\* a stream that runs completes: a done event or the end of the body
StreamComplete ==
  /\ \E i \in 1..Len(chat.streams) :
       /\ ~chat.streams[i].ended
       /\ ~chat.streams[i].aborted
       /\ \E cid \in {Undefined, "42"} :
            chat' = ViewOnComplete([chat EXCEPT !.streams[i].ended = TRUE], i,
                                   IF chat.view = "Chat" THEN cid ELSE Undefined)
  /\ UNCHANGED <<storedToken, nav, clientVars>>

\* a stream that runs fails: an error response (a 401 of streamChat removes
\* the credential), a network failure or a failed read
StreamError ==
  /\ \E i \in 1..Len(chat.streams) :
       /\ ~chat.streams[i].ended
       /\ ~chat.streams[i].aborted
       /\ \E expired \in (IF chat.view = "Chat" /\ chat.streams[i].lines = 0
                            THEN BOOLEAN ELSE {FALSE}) :
            /\ storedToken' = (storedToken /\ ~expired)
            /\ chat' = ViewOnError([chat EXCEPT !.streams[i].ended = TRUE], i,
                                   IF expired THEN <<MsgSessionExpired>>
                                              ELSE <<MsgNetwork>>)
  /\ UNCHANGED <<nav, clientVars>>

\* the request of cargarMensajesIniciales settles
MensajesInicialesSettle ==
  /\ chat.reloads > 0
  /\ \E outcome \in {"page", "empty", "error", "expired"} :
       /\ storedToken' = (storedToken /\ outcome # "expired")
       /\ IF outcome = "page"
            THEN \E has_more \in BOOLEAN :
                   chat' = [chat EXCEPT
                              !.mensajes = PageMessages(1),
                              !.hasMoreMessages = has_more,
                              !.currentPage = 1,
                              !.cargandoMensajes = FALSE,
                              !.reloads = @ - 1]
            ELSE chat' = [chat EXCEPT !.mensajes = Welcome,
                                      !.cargandoMensajes = FALSE,
                                      !.reloads = @ - 1]
  /\ UNCHANGED <<nav, clientVars>>

\* cargarMasMensajes up to its await (handleScroll calls it under the same
\* tests)
cargarMasMensajes ==
  /\ IF chat.isLoadingMore \/ ~chat.hasMoreMessages \/ ~storedToken
       THEN UNCHANGED chat
       ELSE chat' = [chat EXCEPT !.isLoadingMore = TRUE,
                                 !.loading = Append(@, chat.currentPage + 1)]
  /\ UNCHANGED <<storedToken, nav, clientVars>>

\* the request of cargarMasMensajes settles; the server has MaxPage pages
MasMensajesSettle ==
  /\ chat.loading # <<>>
  /\ LET nextPage == Head(chat.loading) IN
     \E outcome \in {"page", "empty", "error", "expired"} :
       /\ outcome = "page" => nextPage <= MaxPage
       /\ storedToken' = (storedToken /\ outcome # "expired")
       /\ IF outcome = "page"
            THEN \E has_more \in BOOLEAN :
                   chat' = [chat EXCEPT
                              !.mensajes = PageMessages(nextPage) \o @,
                              !.hasMoreMessages = has_more,
                              !.currentPage = nextPage,
                              !.isLoadingMore = FALSE,
                              !.loading = Tail(@)]
            ELSE chat' = [chat EXCEPT
                            !.hasMoreMessages = IF outcome = "empty" THEN FALSE ELSE @,
                            !.isLoadingMore = FALSE,
                            !.loading = Tail(@)]
  /\ UNCHANGED <<nav, clientVars>>

NextChat ==
  \/ enviarMensaje
  \/ cancelarStream
  \/ StreamToken
  \/ StreamFlush
  \/ StreamComplete
  \/ StreamError
  \/ MensajesInicialesSettle
  \/ cargarMasMensajes
  \/ MasMensajesSettle

SpecChat == InitChat /\ [][NextChat]_vars



\* the placeholder message of send i, where the list still has it
Placeholders(i) ==
  {k \in 1..Len(chat.mensajes) : chat.mensajes[k].id = chat.streams[i].mensajeCarga}

\* C33: once onError has fired for a send, the placeholder message of that
\* send shows the error message text and keeps showing it: no later
\* callback of the same stream replaces it.
C33_ErrorTextKept ==
  \A i \in 1..Len(chat.streams) :
    chat.streams[i].error # <<>> =>
      \A k \in Placeholders(i) : chat.mensajes[k].texto = chat.streams[i].error


\* the streams of the view that are in flight: neither ended by a terminal
\* callback nor cancelled
InFlight(c) == {i \in 1..Len(c.streams) : ~c.streams[i].ended /\ ~c.streams[i].aborted}

\* the messages of the list that a send of the user has added
UserMessages(c) == {k \in 1..Len(c.mensajes) : c.mensajes[k].esUsuario}

\* C34: at most one stream of a view is in flight, and it is that of the
\* latest send; enviando is true exactly while a stream is in flight, that
\* is from the start of a send until the first of onError, onComplete and
\* cancelarStream for it; no step taken while enviando is true starts a
\* stream or adds a message of the user.
C34_OneStreamInFlight ==
  /\ [](InFlight(chat) \subseteq {Len(chat.streams)})
  /\ [](chat.enviando <=> InFlight(chat) # {})
  /\ [][chat.enviando =>
          /\ Len(chat'.streams) = Len(chat.streams)
          /\ Cardinality(UserMessages(chat')) <= Cardinality(UserMessages(chat))]_vars

\* the second send of a view is in flight after its first stream has ended
C34_Witness ==
  /\ Len(chat.streams) = 2
  /\ chat.streams[1].ended
  /\ InFlight(chat) = {2}
  /\ chat.enviando


\* C35: in Chat.vue the placeholder message of a stream in flight stays in
\* the message list, so that every onToken of the stream updates the
\* displayed text: the reload started by the onComplete of the previous
\* stream never replaces the list after a new send has added its
\* placeholder.
C35_PlaceholderStays ==
  \A i \in InFlight(chat) : Placeholders(i) # {}


\* C36: after cancelarStream no message is left in the loading state: the
\* placeholder of a cancelled send does not remain with cargando = TRUE,
\* also when the stream was cancelled before any token was delivered.
C36_NoLoadingAfterCancel ==
  \A i \in 1..Len(chat.streams) :
    chat.streams[i].aborted =>
      \A k \in Placeholders(i) : ~chat.mensajes[k].cargando


\* a step in which a load-more request settles
MasSettles == Len(chat'.loading) < Len(chat.loading)

\* C37: cargarMasMensajes is not re-entrant and never skips a page: at most
\* one load-more request is in flight and none is issued while
\* isLoadingMore is true; currentPage increases only by exactly 1 and only
\* when a load-more request returns a page, which is put in front of the
\* list; a load-more request that fails or returns no messages leaves
\* currentPage and the list unchanged.
C37_LoadMore ==
  /\ [](Len(chat.loading) <= 1)
  /\ [](chat.isLoadingMore <=> chat.loading # <<>>)
  /\ [][chat.isLoadingMore => Len(chat'.loading) <= Len(chat.loading)]_vars
  /\ [][chat'.currentPage > chat.currentPage =>
          /\ MasSettles
          /\ chat'.currentPage = chat.currentPage + 1
          /\ chat'.mensajes = PageMessages(chat'.currentPage) \o chat.mensajes]_vars
  /\ [][(MasSettles /\ chat'.mensajes = chat.mensajes) =>
          chat'.currentPage = chat.currentPage]_vars


\* ---------------------------------------------------------------- router
\* router/index.ts.  A navigation runs the guard on its target; a redirect
\* runs it again on the new target.  The guards of one navigation run in
\* one task, so the credential store does not change between them; it
\* changes between navigations (login, logout, a 401 answer).
MaxNavigations == 3
MaxGuardRuns == 4

Routes == {"chat-public", "chat", "documents", "auth"}

\* meta.requiresAuth of the route
RequiresAuth(name) == name \in {"chat", "documents"}

\* the router after createRouter: no route entered, no navigation yet
InstalledRouter ==
  [route |-> "start", to |-> "none", asked |-> "none", trail |-> <<>>,
   authenticated |-> FALSE, navigations |-> 0]

InitRouter ==
  /\ IdleClient
  /\ chat = NoChat
  /\ storedToken \in BOOLEAN
  /\ nav = InstalledRouter

\* router.push / the initial navigation: a navigation to a route starts
Navigate ==
  /\ nav.to = "none"
  /\ nav.navigations < MaxNavigations
  /\ \E name \in Routes :
       nav' = [nav EXCEPT !.to = name, !.asked = name, !.trail = <<>>,
                          !.authenticated = storedToken,
                          !.navigations = @ + 1]
  /\ UNCHANGED <<storedToken, chat, clientVars>>

\* (mutant) the guard sends every navigation to auth on to chat, without
\* testing the credential
BeforeEachAuthAlways ==
  /\ nav.to # "none"
  /\ Len(nav.trail) < MaxGuardRuns
  /\ LET requiresAuth == RequiresAuth(nav.to) IN
     IF requiresAuth /\ ~storedToken
       THEN nav' = [nav EXCEPT !.to = "auth", !.trail = Append(@, nav.to)]
     ELSE IF nav.to = "auth"
       THEN nav' = [nav EXCEPT !.to = "chat", !.trail = Append(@, nav.to)]
     ELSE nav' = [nav EXCEPT !.to = "none", !.route = nav.to, !.trail = Append(@, nav.to)]
  /\ UNCHANGED <<storedToken, chat, clientVars>>

\* router.beforeEach runs on the target of the navigation under way:
\* next({ name }) redirects it, next() confirms it
BeforeEach ==
  /\ nav.to # "none"
  /\ Len(nav.trail) < MaxGuardRuns
  /\ LET requiresAuth == RequiresAuth(nav.to) IN
     IF requiresAuth /\ ~storedToken
       THEN nav' = [nav EXCEPT !.to = "auth", !.trail = Append(@, nav.to)]
     ELSE IF nav.to = "auth" /\ storedToken
       THEN nav' = [nav EXCEPT !.to = "chat", !.trail = Append(@, nav.to)]
     ELSE nav' = [nav EXCEPT !.to = "none", !.route = nav.to, !.trail = Append(@, nav.to)]
  /\ UNCHANGED <<storedToken, chat, clientVars>>

\* setToken / removeToken between two navigations
CredentialChange ==
  /\ nav.to = "none"
  /\ storedToken' = ~storedToken
  /\ UNCHANGED <<nav, chat, clientVars>>

NextRouter ==
  \/ Navigate
  \/ BeforeEach
  \/ CredentialChange

SpecRouter == InitRouter /\ [][NextRouter]_vars

\* where the guard sends a navigation to a route
Destination(name, authenticated) ==
  IF RequiresAuth(name) /\ ~authenticated THEN "auth"
  ELSE IF name = "auth" /\ authenticated THEN "chat"
  ELSE name

\* C38: the guard settles every navigation with at most one redirect: it
\* runs at most twice, the second run confirms; a navigation to a route
\* that requires authentication made without a credential ends on auth, a
\* navigation to auth made with a credential ends on chat, every other
\* navigation ends on its target; chat and documents are only entered by a
\* navigation made with a credential.
C38_GuardSettles ==
  /\ [](Len(nav.trail) <= 2)
  /\ [][(nav.to # "none" /\ Len(nav.trail) = 1) => nav'.to = "none"]_vars
  /\ []((nav.to = "none" /\ nav.asked # "none") =>
          nav.route = Destination(nav.asked, nav.authenticated))
  /\ [][(nav.to # "none" /\ nav'.to = "none" /\ RequiresAuth(nav'.route)) =>
          nav.authenticated]_vars

\* a navigation to chat made without a credential has ended on auth after
\* one redirect
C38_Witness ==
  /\ nav.asked = "chat"
  /\ ~nav.authenticated
  /\ nav.to = "none"
  /\ nav.route = "auth"
  /\ nav.trail = <<"chat", "auth">>

====
